---- MODULE Spec2Model ----
(***************************************************************************)
(* Model of main/main.py: a script that declares a retrieve -> generate    *)
(* StateGraph and compiles it, followed by runs of the compiled graph.     *)
(*                                                                         *)
(* The script is evaluated statement by statement.  A statement that reads *)
(* a name not bound in the module namespace raises NameError and stops the *)
(* script.  main.py binds neither retrieve_node nor generate_node; the     *)
(* namespace the file is evaluated in may or may not already hold them     *)
(* (the file run on its own: it holds neither).                            *)
(***************************************************************************)
EXTENDS Naturals, Sequences, FiniteSets

VARIABLES pc, raised, globals, schema, nodes, edges, compileCalls,
          invocations, status, state, active, ran, writes, visited,
          input, returned, prev

scriptVars == <<pc, raised, globals, schema, nodes, edges, compileCalls>>
runVars    == <<invocations, status, state, active, ran, writes, visited,
                input, returned, prev>>
vars       == <<pc, raised, globals, schema, nodes, edges, compileCalls,
                invocations, status, state, active, ran, writes, visited,
                input, returned, prev>>

----------------------------------------------------------------------------
(* Bounds *)
MaxLen     == 2      \* longest messages sequence held in the state
MaxUpd     == 1      \* longest messages sequence in an input or a node return
MaxInvokes == 2      \* runs of the compiled graph
MaxVisits  == 5      \* node steps recorded in one run

Msgs == {"m1", "m2"}

SeqsUpTo(n) == UNION {[1..k -> Msgs] : k \in 0..n}

----------------------------------------------------------------------------
(* Names of main.py *)

\* START and END sentinels imported at line 6
START == "__start__"
END   == "__end__"

\* the two names main.py reads at lines 17-18 and never binds
Callbacks == {"retrieve_node", "generate_node"}

NoFields == [f \in {} |-> ""]

NoRun == [input |-> <<>>, returned |-> NoFields, visited |-> <<>>]

Stmt(l, o, u, b, x, y) ==
    [line |-> l, op |-> o, uses |-> u, binds |-> b, a |-> x, b |-> y]

AgentStateWithContext == [messages |-> "add_messages", context |-> ""]

\* class AgentState(TypedDict): field -> reducer of its Annotated type
AgentState == [messages |-> "add_messages"]

HeaderWithCallbacks ==
    << Stmt(4,  "import", {}, {"Annotated", "Sequence", "TypedDict"}, "", ""),
       Stmt(5,  "import", {}, {"BaseMessage"}, "", ""),
       Stmt(6,  "import", {}, {"StateGraph", "START", "END"}, "", ""),
       Stmt(7,  "import", {}, {"add_messages", "retrieve_node", "generate_node"}, "", ""),
       Stmt(10, "class",
            {"TypedDict", "Annotated", "Sequence", "BaseMessage", "add_messages"},
            {"AgentState"}, "", ""),
       Stmt(14, "StateGraph", {"StateGraph", "AgentState"}, {"workflow"}, "", "") >>

\* lines 4-14: the imports, the state class and the builder, with the names
\* each statement reads and the names it binds
Header ==
    << Stmt(4,  "import", {}, {"Annotated", "Sequence", "TypedDict"}, "", ""),
       Stmt(5,  "import", {}, {"BaseMessage"}, "", ""),
       Stmt(6,  "import", {}, {"StateGraph", "START", "END"}, "", ""),
       Stmt(7,  "import", {}, {"add_messages"}, "", ""),
       Stmt(10, "class",
            {"TypedDict", "Annotated", "Sequence", "BaseMessage", "add_messages"},
            {"AgentState"}, "", ""),
       Stmt(14, "StateGraph", {"StateGraph", "AgentState"}, {"workflow"}, "", "") >>

\* lines 17-18
NodeStmts ==
    << Stmt(17, "add_node", {"workflow", "retrieve_node"}, {}, "retrieve", "retrieve_node"),
       Stmt(18, "add_node", {"workflow", "generate_node"}, {}, "generate", "generate_node") >>

FlowDangling ==
    << Stmt(21, "add_edge", {"workflow", "START"}, {}, START, "retrieve"),
       Stmt(22, "add_edge", {"workflow"}, {}, "retrieve", "generate"),
       Stmt(23, "add_edge", {"workflow", "END"}, {}, "retrieve", END) >>

FlowFanOut ==
    << Stmt(21, "add_edge", {"workflow", "START"}, {}, START, "retrieve"),
       Stmt(22, "add_edge", {"workflow", "START"}, {}, START, "generate"),
       Stmt(23, "add_edge", {"workflow", "END"}, {}, "generate", END) >>

FlowLoop ==
    << Stmt(21, "add_edge", {"workflow", "START"}, {}, START, "retrieve"),
       Stmt(22, "add_edge", {"workflow"}, {}, "retrieve", "generate"),
       Stmt(23, "add_edge", {"workflow"}, {}, "generate", "retrieve") >>

FlowConditional ==
    << Stmt(21, "add_edge", {"workflow", "START"}, {}, START, "retrieve"),
       Stmt(22, "add_conditional_edges", {"workflow"}, {}, "retrieve", "generate"),
       Stmt(23, "add_edge", {"workflow", "END"}, {}, "generate", END) >>

\* lines 21-23
FlowStmts ==
    << Stmt(21, "add_edge", {"workflow", "START"}, {}, START, "retrieve"),
       Stmt(22, "add_edge", {"workflow"}, {}, "retrieve", "generate"),
       Stmt(23, "add_edge", {"workflow", "END"}, {}, "generate", END) >>

\* line 26
CompileStmt ==
    << Stmt(26, "compile", {"workflow"}, {"graph"}, "", "") >>

ScriptFlowFirst == Header \o FlowStmts \o NodeStmts \o CompileStmt

\* The statements of main.py in textual order
Script == Header \o NodeStmts \o FlowStmts \o CompileStmt

\* the statement about to be evaluated is one of the kinds ops and every name it reads
\* is bound
Ready(ops) ==
    /\ raised = 0
    /\ pc <= Len(Script)
    /\ Script[pc].op \in ops
    /\ Script[pc].uses \subseteq globals

Advance ==
    /\ pc' = pc + 1
    /\ globals' = globals \cup Script[pc].binds
    /\ raised' = raised

----------------------------------------------------------------------------
(* Evaluation of the script *)

Init ==
    /\ pc = 1
    /\ raised = 0
    /\ globals \in SUBSET Callbacks
    /\ schema = NoFields
    /\ nodes = {}
    /\ edges = {}
    /\ compileCalls = 0
    /\ invocations = 0
    /\ status = "idle"
    /\ state = NoFields
    /\ active = {}
    /\ ran = {}
    /\ writes = <<>>
    /\ visited = <<>>
    /\ input = <<>>
    /\ returned = NoFields
    /\ prev = NoRun

\* lines 4-7
Import ==
    /\ Ready({"import"})
    /\ Advance
    /\ UNCHANGED <<schema, nodes, edges, compileCalls>>
    /\ UNCHANGED runVars

\* lines 10-11
ClassDef ==
    /\ Ready({"class"})
    /\ Advance
    /\ UNCHANGED <<schema, nodes, edges, compileCalls>>
    /\ UNCHANGED runVars

\* line 14: workflow = StateGraph(AgentState)
NewStateGraph ==
    /\ Ready({"StateGraph"})
    /\ Advance
    /\ schema' = AgentState
    /\ nodes' = {}
    /\ edges' = {}
    /\ UNCHANGED compileCalls
    /\ UNCHANGED runVars

\* lines 17-18: workflow.add_node(name, callback)
AddNode ==
    /\ Ready({"add_node"})
    /\ Advance
    /\ nodes' = nodes \cup {Script[pc].a}
    /\ UNCHANGED <<schema, edges, compileCalls>>
    /\ UNCHANGED runVars

Edge(x, y, w) == [from |-> x, to |-> y, when |-> w]

\* lines 21-23: workflow.add_edge(a, b) registers a fixed edge, one that is
\* followed whatever the state holds; add_conditional_edges registers an
\* edge followed only when the state's messages are not empty
AddEdge ==
    /\ Ready({"add_edge", "add_conditional_edges"})
    /\ Advance
    /\ edges' = edges \cup
                 {Edge(Script[pc].a, Script[pc].b,
                       IF Script[pc].op = "add_edge" THEN "always" ELSE "nonempty")}
    /\ UNCHANGED <<schema, nodes, compileCalls>>
    /\ UNCHANGED runVars

\* line 26: graph = workflow.compile()
Compile ==
    /\ Ready({"compile"})
    /\ Advance
    /\ compileCalls' = compileCalls + 1
    /\ UNCHANGED <<schema, nodes, edges>>
    /\ UNCHANGED runVars

\* a statement reads an unbound name: the script stops there
NameError ==
    /\ raised = 0
    /\ pc <= Len(Script)
    /\ ~ (Script[pc].uses \subseteq globals)
    /\ raised' = Script[pc].line
    /\ UNCHANGED <<pc, globals, schema, nodes, edges, compileCalls>>
    /\ UNCHANGED runVars

----------------------------------------------------------------------------
(* Runs of the compiled graph *)

Followed(e, st) ==
    \/ e.when = "always"
    \/ \E f \in DOMAIN st : st[f] # <<>>

\* the targets of the edges that leave the steps S when the state is st
Succ(S, st) == {e.to : e \in {d \in edges : d.from \in S /\ Followed(d, st)}}

\* what a node callback may return: values for any subset of the state's
\* fields
Updates == UNION {[D -> SeqsUpTo(MaxUpd)] : D \in SUBSET (DOMAIN schema)}

Written(f) == \E i \in 1..Len(writes) : f \in DOMAIN writes[i]

\* The value of field f after the writes of a step.  A field with the
\* add_messages reducer gets whatever that imported function computes from
\* the old value and the writes; a field without a reducer takes a written
\* value.
Merged(f, new) ==
    IF ~ Written(f) THEN new = state[f]
    ELSE IF schema[f] = "add_messages" THEN new \in SeqsUpTo(MaxLen)
    ELSE \E i \in 1..Len(writes) : f \in DOMAIN writes[i] /\ new = writes[i][f]

\* graph.invoke({"messages": inp})
Invoke ==
    /\ "graph" \in globals
    /\ status \in {"idle", "done"}
    /\ invocations < MaxInvokes
    /\ \E inp \in SeqsUpTo(MaxUpd) :
         /\ input' = inp
         /\ writes' = << [messages |-> inp] >>
    /\ invocations' = invocations + 1
    /\ status' = "running"
    /\ state' = [f \in DOMAIN schema |-> <<>>]
    /\ active' = {}
    /\ ran' = {START}
    /\ visited' = <<START>>
    /\ returned' = NoFields
    /\ prev' = IF status = "done"
               THEN [input |-> input, returned |-> returned, visited |-> visited]
               ELSE prev
    /\ UNCHANGED scriptVars

\* a scheduled node's callback runs and returns an update
RunNode ==
    /\ status = "running"
    /\ Len(visited) < MaxVisits
    /\ \E n \in active, upd \in Updates :
         /\ active' = active \ {n}
         /\ ran' = ran \cup {n}
         /\ visited' = Append(visited, n)
         /\ writes' = Append(writes, upd)
         /\ returned' = upd
    /\ UNCHANGED <<invocations, status, state, input, prev>>
    /\ UNCHANGED scriptVars

\* every node of the step has returned: merge the writes and schedule the
\* targets of the outgoing edges
EndStep ==
    /\ status = "running"
    /\ active = {}
    /\ ran # {}
    /\ \E new \in [DOMAIN schema -> SeqsUpTo(MaxLen)] :
         /\ \A f \in DOMAIN schema : Merged(f, new[f])
         /\ state' = new
         /\ active' = Succ(ran, new) \ {END}
         /\ IF Succ(ran, new) \ {END} = {}
            THEN /\ status' = "done"
                 /\ visited' = IF END \in Succ(ran, new)
                                THEN Append(visited, END) ELSE visited
            ELSE /\ status' = "running"
                 /\ visited' = visited
    /\ writes' = <<>>
    /\ ran' = {}
    /\ UNCHANGED <<invocations, input, returned, prev>>
    /\ UNCHANGED scriptVars

----------------------------------------------------------------------------
Next ==
    \/ Import
    \/ ClassDef
    \/ NewStateGraph
    \/ AddNode
    \/ AddEdge
    \/ Compile
    \/ NameError
    \/ Invoke
    \/ RunNode
    \/ EndStep

Spec == Init /\ [][Next]_vars

\* a node callback that is scheduled returns, and the step then ends
FairSpec == Spec /\ WF_vars(RunNode) /\ WF_vars(EndStep)

----------------------------------------------------------------------------
(* Properties *)

Linear == <<START, "retrieve", "generate", END>>

DeclaredNodes == {"retrieve", "generate"}

DeclaredEdges == {Edge(START, "retrieve", "always"),
                  Edge("retrieve", "generate", "always"),
                  Edge("generate", END, "always")}

In(n)  == {e \in edges : e.to = n}
Out(n) == {e \in edges : e.from = n}

IsPrefix(s, t) == Len(s) <= Len(t) /\ \A i \in 1..Len(s) : s[i] = t[i]

Count(s, x) == Cardinality({i \in 1..Len(s) : s[i] = x})

\* the steps scheduled in the current step of the run, returned or not
Scheduled == active \cup (ran \ {START})

\* C1: the graph handed to compile has exactly the nodes retrieve and
\* generate and exactly the edges START->retrieve, retrieve->generate,
\* generate->END; nothing else is ever registered, and each node has one
\* incoming and one outgoing edge.
C1_DeclaredGraph ==
    /\ nodes \subseteq DeclaredNodes
    /\ edges \subseteq DeclaredEdges
    /\ compileCalls > 0 =>
         /\ nodes = DeclaredNodes
         /\ edges = DeclaredEdges
         /\ \A n \in nodes : Cardinality(In(n)) = 1 /\ Cardinality(Out(n)) = 1

C1_Witness ==
    /\ compileCalls = 1
    /\ "graph" \in globals
    /\ Cardinality(nodes) = 2
    /\ Cardinality(edges) = 3

\* C2: a run visits START, then retrieve once, then generate once, then END;
\* generate is never scheduled before retrieve's step has ended, and at most
\* one node is scheduled at any time.
C2_LinearRun ==
    /\ IsPrefix(visited, Linear)
    /\ status = "done" => visited = Linear
    /\ Cardinality(Scheduled) <= 1
    /\ "generate" \in Scheduled =>
         /\ Count(visited, "retrieve") = 1
         /\ "retrieve" \notin Scheduled

C2_Witness ==
    /\ status = "done"
    /\ Count(visited, "retrieve") = 1
    /\ Count(visited, "generate") = 1
    /\ visited[Len(visited)] = END

\* C4: the script defines the state shape, then registers both nodes, then
\* adds the three edges, then calls compile; when an edge is added both its
\* endpoints are registered nodes or the START/END sentinels, and compile is
\* called once, after all nodes and edges are in place.
C4_Order ==
    /\ [](/\ nodes # {} => schema = AgentState
          /\ edges # {} => nodes = DeclaredNodes
          /\ compileCalls > 0 => nodes = DeclaredNodes /\ Cardinality(edges) = 3
          /\ compileCalls <= 1)
    /\ [][/\ \A e \in edges' \ edges :
                /\ e.from \in nodes \cup {START}
                /\ e.to \in nodes \cup {END}
          /\ compileCalls' # compileCalls =>
                /\ compileCalls = 0
                /\ nodes = DeclaredNodes
                /\ Cardinality(edges) = 3
                /\ pc = Len(Script)]_vars

C4_Witness ==
    /\ pc = Len(Script) + 1
    /\ compileCalls = 1
    /\ schema = AgentState
    /\ nodes = DeclaredNodes
    /\ Cardinality(edges) = 3

RECURSIVE Reach(_, _)
Reach(S, k) == IF k = 0 THEN S ELSE Reach(S \cup {e.to : e \in {d \in edges : d.from \in S}}, k - 1)

\* the steps reachable from n along one or more edges
After(n) == Reach({e.to : e \in Out(n)}, Cardinality(edges))

NodeSteps == Cardinality({i \in 1..Len(visited) : visited[i] \in nodes})

\* C5: with node callbacks that return, every run of the compiled graph
\* reaches END: the edges have no cycle, every node has an outgoing edge,
\* and a run ends after exactly two node steps.
C5_Terminates ==
    /\ [](compileCalls > 0 =>
            \A n \in nodes : n \notin After(n) /\ Out(n) # {})
    /\ [](status = "done" => NodeSteps = 2 /\ visited[Len(visited)] = END)
    /\ (status = "running") ~> (status = "done")

C5_Witness ==
    /\ status = "done"
    /\ NodeSteps = 2
    /\ visited[Len(visited)] = END
    /\ invocations = MaxInvokes

\* C6: no statement of the script binds retrieve_node or generate_node, so
\* the script evaluated on its own raises NameError at line 17, the first
\* add_node call, with no node, no edge, no compile call and no binding of
\* graph.
C6_FailsAtFirstAddNode ==
    /\ [][globals' \cap Callbacks = globals \cap Callbacks]_vars
    /\ [](globals \cap Callbacks = {} =>
            /\ pc <= Len(Script)
            /\ Script[pc].line <= 17
            /\ raised \in {0, 17}
            /\ (Script[pc].line = 17 /\ raised = 0) => ENABLED NameError
            /\ nodes = {}
            /\ edges = {}
            /\ compileCalls = 0
            /\ "graph" \notin globals
            /\ status = "idle")

C6_Witness ==
    /\ globals \cap Callbacks = {}
    /\ raised = 17
    /\ "workflow" \in globals
    /\ nodes = {}

\* C7: the order of visited steps does not depend on the state: two runs
\* with different inputs and different callback returns visit START,
\* retrieve, generate, END in the same order.
C7_SameOrder ==
    /\ IsPrefix(visited, prev.visited) \/ prev.visited = <<>>
    /\ (status = "done" /\ prev.visited # <<>>) =>
          /\ visited = prev.visited
          /\ visited = Linear

C7_Witness ==
    /\ status = "done"
    /\ prev.visited # <<>>
    /\ visited = prev.visited
    /\ input # prev.input
    /\ returned # prev.returned

\* C8: the state has exactly the field messages at every step of every run,
\* and neither add_node, add_edge nor a graph step changes the state shape.
C8_OneField ==
    /\ []("workflow" \in globals => DOMAIN schema = {"messages"})
    /\ [](status # "idle" => DOMAIN state = {"messages"})
    /\ [][("workflow" \in globals) => schema' = schema]_vars

C8_Witness ==
    /\ status = "done"
    /\ DOMAIN state = {"messages"}
    /\ state.messages # <<>>
    /\ Len(visited) = 4

====
